---- MODULE Spec2Model ----
(***************************************************************************)
(* State-machine model of the LSL audio bridge of Bela-liblsl              *)
(* (src/src/render_lsl_audio.cpp): the ring buffer shared by the fill task *)
(* (writer) and the render callback (reader), and the stream session that  *)
(* resolveStreams opens and fillAudioBuffer drops.                         *)
(*                                                                         *)
(* Granularity: the render callback runs one sample frame per step; the    *)
(* fill task runs its entry/free-space computation, its pull, every        *)
(* per-channel store and every writePos advance as separate steps; the     *)
(* discovery pass runs its scan of the candidates, the inlet creation, the *)
(* index reset and the activation as separate steps (the scan writes only  *)
(* audioChannels, which the other contexts read in an active session       *)
(* only).  All steps of the three contexts interleave freely.              *)
(*                                                                         *)
(* Spec is the audio bridge, LiveSpec the audio bridge under fair           *)
(* scheduling with a connectable source always advertised, and MultiSpec    *)
(* the multi-inlet variant (src/src/render.cpp).                            *)
(***************************************************************************)
EXTENDS Integers, Sequences, FiniteSets, TLC

(* ------------------------------ bounds -------------------------------- *)
\* log2 of the ring capacity (the source uses 13: 8192 frames)
BufferBits == 2
\* frames per pull batch (the source uses 512)
BatchLimit == 2
\* sessions activated in one run
MaxSessions == 2
\* candidates one resolver result holds at most
MaxCandidates == 2
\* context->audioFrames: sample frames per render block
AudioFrames == 1
\* context->audioOutChannels
AudioOutChannels == 2

(* --------------------------- configuration ---------------------------- *)
AUDIO_STREAM_NAME == "audio"
AUDIO_BUFFER_FRAMES == 2 ^ BufferBits
MAX_CHANNELS == 8
bufferMask == AUDIO_BUFFER_FRAMES - 1
belaSampleRate == 48000
\* frames the pull and timestamp scratch buffers hold (the source uses 1024,
\* twice the batch limit)
PULL_BUFFER_FRAMES == 2 * BatchLimit
\* frames the sources deliver in one run: one more than the ring has slots
MaxFrames == AUDIO_BUFFER_FRAMES + 1

VARIABLES
  shouldResolveStreams, audioStreamActive,
  audioInlet, liveInlets, audioSampleRate, audioChannels,
  audioBuffer, pullBuffer, readPos, writePos,
  fpc, maxFramesToPull, framesPulled, f, ch,
  rpc, info, rateRejected, laterValid,
  n, audioOut,
  resolvePending, fillPending,
  session, srcNext, srcBase,
  w, r, popLog, mixed, lossKind, lossAt, outCtx,
  streamInlets, streamData, streamNames, streamsResolved, availableStreams,
  needToReopen, resolveI, mrpc, pullI, ppc, pullPending, lostStreams, ignored

progVars == <<shouldResolveStreams, audioStreamActive, audioInlet, liveInlets,
              audioSampleRate, audioChannels, audioBuffer, pullBuffer,
              readPos, writePos>>
fillVars == <<fpc, maxFramesToPull, framesPulled, f, ch>>
resolveVars == <<rpc, info, rateRejected, laterValid>>
renderVars == <<n, audioOut>>
schedVars == <<resolvePending, fillPending>>
envVars == <<session, srcNext, srcBase>>
histVars == <<w, r, popLog, mixed, lossKind, lossAt, outCtx>>
\* the state of the multi-inlet variant (src/src/render.cpp); it shares
\* shouldResolveStreams and the pending discovery task with the audio variant
multiVars == <<streamInlets, streamData, streamNames, streamsResolved,
               availableStreams, needToReopen, resolveI, mrpc, pullI, ppc,
               pullPending,
               lostStreams, ignored>>
\* the state only the audio variant has
audioVars == <<audioStreamActive, audioInlet, liveInlets, audioSampleRate,
               audioChannels, audioBuffer, pullBuffer, readPos, writePos,
               fillVars, resolveVars, renderVars, fillPending, envVars, histVars>>
vars == <<progVars, fillVars, resolveVars, renderVars, schedVars, envVars, histVars,
          multiVars>>

(* ------------------------------ helpers ------------------------------- *)
Min(a, b) == IF a < b THEN a ELSE b
Abs(x) == IF x < 0 THEN -x ELSE x

\* the C operator & on non-negative ints
RECURSIVE BitAnd(_, _)
BitAnd(a, b) ==
  IF a = 0 \/ b = 0 THEN 0
  ELSE (a % 2) * (b % 2) + 2 * BitAnd(a \div 2, b \div 2)

\* sample of channel c (0-based) of the k-th frame (1-based) the sources
\* deliver in a run; never 0, and different for different (k, c)
SampleOf(k, c) == k * MAX_CHANNELS + c + 1

Info(nm, sr, cc, ok) == [name |-> nm, srate |-> sr, channels |-> cc, openOk |-> ok]

\* the loop variable outside the loop, and the null inlet pointer
NoInfo == Info("", 0, 0, FALSE)
NoInlet == [of |-> NoInfo, open |-> FALSE]

\* no pull has failed in the current session
NoLoss == [rp |-> 0, wp |-> 0, inlet |-> NoInlet]

\* no sample frame rendered since the active flag last changed
NoOutCtx == [fresh |-> FALSE, active |-> FALSE, empty |-> TRUE]

\* what audioWrite(context, n, c, 0.0f) for every output channel leaves
Silence == [c \in 1..AudioOutChannels |-> 0]

(* ----------------------- the advertised sources ----------------------- *)

\* what one entry of resolver->results() can be
Candidates ==
  { Info("other", belaSampleRate, 1, TRUE),
    Info(AUDIO_STREAM_NAME, belaSampleRate + 48, 2, TRUE),
    Info(AUDIO_STREAM_NAME, belaSampleRate, MAX_CHANNELS + 1, TRUE),
    Info(AUDIO_STREAM_NAME, belaSampleRate, 0, TRUE),
    Info(AUDIO_STREAM_NAME, belaSampleRate, 1, FALSE),
    Info(AUDIO_STREAM_NAME, belaSampleRate, 1, TRUE),
    Info(AUDIO_STREAM_NAME, belaSampleRate + 47, 2, TRUE) }

CandidateLists ==
  UNION { [1..k -> Candidates] : k \in 0..MaxCandidates }

(* --------------------------- pure functions --------------------------- *)
\* raw ring occupancy, lines 48-50 without the active check
available(rp, wp) ==
  LET a == wp - rp IN IF a < 0 THEN a + AUDIO_BUFFER_FRAMES ELSE a

samplesAvailable_NoWrap ==
  IF ~audioStreamActive THEN 0 ELSE writePos - readPos

samplesAvailable ==
  IF ~audioStreamActive THEN 0 ELSE available(readPos, writePos)

\* free space the fill task computes from its readPos snapshot, lines 61-62
WriteSpace(rs, wp) ==
  LET a == rs - wp - 1 IN IF a <= 0 THEN a + AUDIO_BUFFER_FRAMES ELSE a

FillBufferIndex == BitAnd(writePos, bufferMask) * audioChannels

RenderBufferIndex_Fixed == BitAnd(readPos, bufferMask) * MAX_CHANNELS

RenderBufferIndex == BitAnd(readPos, bufferMask) * audioChannels

RateCompatible_Inclusive(srate, local) == Abs(srate - local) * 1000 <= local

\* std::abs(rate - local) < local * 0.001, in integers
RateCompatible(srate, local) == Abs(srate - local) * 1000 < local

ValidChannels_NoUpper(k) == ~(k <= 0)

ValidChannels(k) == ~(k <= 0 \/ k > MAX_CHANNELS)

(* -------------------------------- Init -------------------------------- *)
Init ==
  /\ shouldResolveStreams = TRUE
  /\ audioStreamActive = FALSE
  /\ audioInlet = NoInlet
  /\ liveInlets = 0
  /\ audioSampleRate = 0
  /\ audioChannels = 0
  /\ audioBuffer = [i \in 0..(AUDIO_BUFFER_FRAMES * MAX_CHANNELS - 1) |-> 0]
  /\ pullBuffer = <<>>
  /\ readPos = 0
  /\ writePos = 0
  /\ fpc = "idle" /\ maxFramesToPull = 0 /\ framesPulled = 0 /\ f = 0 /\ ch = 0
  /\ rpc = "idle" /\ info = NoInfo /\ rateRejected = FALSE /\ laterValid = FALSE
  /\ n = AudioFrames /\ audioOut = <<>>
  /\ resolvePending = TRUE
  /\ fillPending = FALSE
  /\ session = 0 /\ srcNext = 0 /\ srcBase = 0
  /\ w = 0 /\ r = 0 /\ popLog = <<>> /\ mixed = FALSE
  /\ lossKind = "none" /\ lossAt = NoLoss
  /\ outCtx = NoOutCtx
  /\ streamInlets = <<>> /\ streamData = <<>> /\ streamNames = <<>>
  /\ streamsResolved = FALSE /\ availableStreams = <<>>
  /\ needToReopen = FALSE /\ resolveI = 0 /\ mrpc = "idle"
  /\ pullI = 0 /\ ppc = "idle" /\ pullPending = FALSE
  /\ lostStreams = {} /\ ignored = {}

(* ------------------------------ fill task ----------------------------- *)
FillReturn ==
  /\ fpc' = "idle" /\ maxFramesToPull' = 0 /\ framesPulled' = 0
  /\ f' = 0 /\ ch' = 0 /\ pullBuffer' = <<>>

\* entry check, readPos snapshot and free-space computation
FillEnter ==
  /\ fillPending /\ fpc = "idle"
  /\ fillPending' = FALSE
  /\ IF ~audioStreamActive \/ audioInlet = NoInlet \/ ~ValidChannels(audioChannels)
     THEN UNCHANGED fillVars
     ELSE LET readPosSnapshot == readPos
              avail == WriteSpace(readPosSnapshot, writePos)
              m == Min(BatchLimit, avail)
          IN IF m <= 0
             THEN UNCHANGED fillVars
             ELSE /\ fpc' = "pull" /\ maxFramesToPull' = m
                  /\ UNCHANGED <<framesPulled, f, ch>>
  /\ UNCHANGED <<progVars, resolveVars, renderVars, resolvePending, envVars, histVars>>
  /\ UNCHANGED multiVars

\* pull_chunk_multiplexed returns k whole frames, 0 <= k <= maxFramesToPull
FillPull ==
  /\ fpc = "pull"
  /\ \E k \in 0..Min(maxFramesToPull, MaxFrames - srcNext) :
       LET samples_read == k * audioChannels
           pulled == samples_read \div audioChannels
       IN /\ srcNext' = srcNext + k
          /\ IF pulled > 0
             THEN /\ pullBuffer' = [i \in 0..(samples_read - 1) |->
                        SampleOf(srcNext + (i \div audioChannels) + 1,
                                 i % audioChannels)]
                  /\ fpc' = "copy" /\ framesPulled' = pulled /\ f' = 0 /\ ch' = 0
                  /\ maxFramesToPull' = 0
             ELSE FillReturn
  /\ UNCHANGED <<shouldResolveStreams, audioStreamActive, audioInlet, liveInlets,
                 audioSampleRate, audioChannels, audioBuffer, readPos, writePos,
                 resolveVars, renderVars, schedVars, session, srcBase, histVars>>
  /\ UNCHANGED multiVars

\* audioBuffer[bufferIndex + ch] = pullBuffer[pullIndex + ch]
FillCopy ==
  /\ fpc = "copy" /\ ch < audioChannels
  /\ LET bufferIndex == FillBufferIndex
         pullIndex == f * audioChannels
     IN audioBuffer' = [audioBuffer EXCEPT ![bufferIndex + ch] = pullBuffer[pullIndex + ch]]
  /\ ch' = ch + 1
  /\ UNCHANGED <<shouldResolveStreams, audioStreamActive, audioInlet, liveInlets,
                 audioSampleRate, audioChannels, pullBuffer, readPos, writePos,
                 fpc, maxFramesToPull, framesPulled, f,
                 resolveVars, renderVars, schedVars, envVars, histVars>>
  /\ UNCHANGED multiVars

FillAdvance_Early ==
  /\ fpc = "copy" /\ ch >= 1
  /\ writePos' = BitAnd(writePos + 1, bufferMask)
  /\ w' = w + 1
  /\ mixed' = (mixed \/ r > 0)
  /\ IF f + 1 < framesPulled
     THEN /\ f' = f + 1 /\ ch' = 0
          /\ UNCHANGED <<fpc, maxFramesToPull, framesPulled, pullBuffer>>
     ELSE FillReturn
  /\ UNCHANGED <<shouldResolveStreams, audioStreamActive, audioInlet, liveInlets,
                 audioSampleRate, audioChannels, audioBuffer, readPos,
                 resolveVars, renderVars, schedVars, envVars,
                 r, popLog, lossKind, lossAt, outCtx>>
  /\ UNCHANGED multiVars

FillAdvance_NoMask ==
  /\ fpc = "copy" /\ ch = audioChannels
  /\ writePos' = writePos + 1
  /\ w' = w + 1
  /\ mixed' = (mixed \/ r > 0)
  /\ IF f + 1 < framesPulled
     THEN /\ f' = f + 1 /\ ch' = 0
          /\ UNCHANGED <<fpc, maxFramesToPull, framesPulled, pullBuffer>>
     ELSE FillReturn
  /\ UNCHANGED <<shouldResolveStreams, audioStreamActive, audioInlet, liveInlets,
                 audioSampleRate, audioChannels, audioBuffer, readPos,
                 resolveVars, renderVars, schedVars, envVars,
                 r, popLog, lossKind, lossAt, outCtx>>
  /\ UNCHANGED multiVars

\* writePos = (writePos + 1) & bufferMask, then the next frame or the end
FillAdvance ==
  /\ fpc = "copy" /\ ch = audioChannels
  /\ writePos' = BitAnd(writePos + 1, bufferMask)
  /\ w' = w + 1
  /\ mixed' = (mixed \/ r > 0)
  /\ IF f + 1 < framesPulled
     THEN /\ f' = f + 1 /\ ch' = 0
          /\ UNCHANGED <<fpc, maxFramesToPull, framesPulled, pullBuffer>>
     ELSE FillReturn
  /\ UNCHANGED <<shouldResolveStreams, audioStreamActive, audioInlet, liveInlets,
                 audioSampleRate, audioChannels, audioBuffer, readPos,
                 resolveVars, renderVars, schedVars, envVars,
                 r, popLog, lossKind, lossAt, outCtx>>
  /\ UNCHANGED multiVars

FillCatch(kind) ==
  /\ fpc = "pull"
  /\ audioStreamActive' = FALSE
  /\ lossKind' = kind
  /\ lossAt' = [rp |-> readPos, wp |-> writePos, inlet |-> audioInlet]
  /\ outCtx' = NoOutCtx
  /\ FillReturn
  /\ UNCHANGED <<shouldResolveStreams, audioInlet, liveInlets, audioSampleRate,
                 audioChannels, audioBuffer, readPos, writePos,
                 resolveVars, renderVars, schedVars, envVars,
                 w, r, popLog, mixed>>
  /\ UNCHANGED multiVars

FillCatch_KeepActive(kind) ==
  /\ fpc = "pull"
  /\ lossKind' = kind
  /\ lossAt' = [rp |-> readPos, wp |-> writePos, inlet |-> audioInlet]
  /\ outCtx' = NoOutCtx
  /\ FillReturn
  /\ UNCHANGED <<shouldResolveStreams, audioStreamActive, audioInlet, liveInlets,
                 audioSampleRate, audioChannels, audioBuffer, readPos, writePos,
                 resolveVars, renderVars, schedVars, envVars,
                 w, r, popLog, mixed>>
  /\ UNCHANGED multiVars

FillPullLost_KeepActive == FillCatch_KeepActive("lost")

\* the pull throws lsl::lost_error
FillPullLost == FillCatch("lost")

FillPullError_KeepActive == FillCatch_KeepActive("error")

\* the pull throws another std::exception
FillPullError == FillCatch("error")

(* --------------------------- discovery pass --------------------------- *)
ResolveReturn ==
  rpc' = "idle" /\ info' = NoInfo /\ rateRejected' = FALSE /\ laterValid' = FALSE

\* the for loop over the candidates from position i on, up to the first
\* candidate that passes the name, rate and channel-count checks; chans is
\* the channel count the candidates before i stored, if any; laterValid
\* tells whether the rest of the list holds another candidate that passes
\* the three checks
RECURSIVE Scan(_, _, _)
Scan(s, i, chans) ==
  IF i > Len(s)
  THEN [found |-> FALSE, at |-> 0, info |-> NoInfo, channels |-> chans,
        rateRejected |-> FALSE, laterValid |-> FALSE]
  ELSE IF s[i].name # AUDIO_STREAM_NAME
  THEN Scan(s, i + 1, chans)
  ELSE IF ~RateCompatible(s[i].srate, belaSampleRate)
  THEN [Scan(s, i + 1, chans) EXCEPT !.rateRejected = TRUE]
  ELSE IF ~ValidChannels(s[i].channels)
  THEN Scan(s, i + 1, <<s[i].channels>>)
  ELSE [found |-> TRUE, at |-> i, info |-> s[i], channels |-> <<s[i].channels>>,
        rateRejected |-> FALSE, laterValid |-> Scan(s, i + 1, <<>>).found]

\* what the pass over the result list s does up to the candidate it tries
\* to open: nothing for an empty list (lines 110-113), else the scan;
\* channels is <<>> when the pass stores no channel count, else the last
\* count it stores
PassOutcome(s) ==
  IF s = <<>>
  THEN [found |-> FALSE, at |-> 0, info |-> NoInfo, channels |-> <<>>,
        rateRejected |-> FALSE, laterValid |-> FALSE]
  ELSE Scan(s, 1, <<>>)

\* the outcomes of a pass over the result lists the resolver can hold: any
\* list while a source may still appear, the empty list afterwards
PassOutcomes == { PassOutcome(s) : s \in CandidateLists }

Advertised == IF session < MaxSessions THEN PassOutcomes ELSE {PassOutcome(<<>>)}

ResolveStart_NoActiveCheck ==
  /\ resolvePending /\ rpc = "idle"
  /\ resolvePending' = FALSE
  /\ IF FALSE
     THEN UNCHANGED <<resolveVars, audioChannels>>
     ELSE \E res \in Advertised :
            /\ audioChannels' = IF res.channels = <<>> THEN audioChannels
                                ELSE res.channels[1]
            /\ IF res.found
               THEN /\ rpc' = "create" /\ info' = res.info
                    /\ rateRejected' = res.rateRejected
                    /\ laterValid' = res.laterValid
               ELSE UNCHANGED resolveVars
  /\ UNCHANGED <<shouldResolveStreams, audioStreamActive, audioInlet, liveInlets,
                 audioSampleRate, audioBuffer, pullBuffer, readPos, writePos,
                 fillVars, renderVars, fillPending, envVars,
                 w, r, popLog, mixed, lossKind, lossAt, outCtx>>
  /\ UNCHANGED multiVars

\* resolver->results(), the empty and active checks, and the scan of the
\* candidates up to the one the pass tries to open (the result list is not
\* used when a session is active, so it is drawn only when none is)
ResolveStartFrom(outcomes) ==
  /\ resolvePending /\ rpc = "idle"
  /\ resolvePending' = FALSE
  /\ IF audioStreamActive
     THEN UNCHANGED <<resolveVars, audioChannels>>
     ELSE \E res \in outcomes :
            /\ audioChannels' = IF res.channels = <<>> THEN audioChannels
                                ELSE res.channels[1]
            /\ IF res.found
               THEN /\ rpc' = "create" /\ info' = res.info
                    /\ rateRejected' = res.rateRejected
                    /\ laterValid' = res.laterValid
               ELSE UNCHANGED resolveVars
  /\ UNCHANGED <<shouldResolveStreams, audioStreamActive, audioInlet, liveInlets,
                 audioSampleRate, audioBuffer, pullBuffer, readPos, writePos,
                 fillVars, renderVars, fillPending, envVars,
                 w, r, popLog, mixed, lossKind, lossAt, outCtx>>
  /\ UNCHANGED multiVars

ResolveStart == ResolveStartFrom(Advertised)

ResolveCreate_EarlyActive ==
  /\ rpc = "create"
  /\ audioSampleRate' = info.srate
  /\ liveInlets' = (IF audioInlet # NoInlet THEN liveInlets - 1 ELSE liveInlets) + 1
  /\ IF info.openOk
     THEN /\ audioInlet' = [of |-> info, open |-> TRUE] /\ rpc' = "reset"
          /\ UNCHANGED <<info, rateRejected, laterValid>>
     ELSE audioInlet' = [of |-> info, open |-> FALSE] /\ ResolveReturn
  /\ audioStreamActive' = info.openOk
  /\ UNCHANGED <<shouldResolveStreams, audioChannels,
                 audioBuffer, pullBuffer, readPos, writePos,
                 fillVars, renderVars, schedVars, envVars, histVars>>
  /\ UNCHANGED multiVars

\* record the rate, drop the old inlet, create and open the new one
ResolveCreate ==
  /\ rpc = "create"
  /\ audioSampleRate' = info.srate
  /\ liveInlets' = (IF audioInlet # NoInlet THEN liveInlets - 1 ELSE liveInlets) + 1
  /\ IF info.openOk
     THEN /\ audioInlet' = [of |-> info, open |-> TRUE] /\ rpc' = "reset"
          /\ UNCHANGED <<info, rateRejected, laterValid>>
     ELSE audioInlet' = [of |-> info, open |-> FALSE] /\ ResolveReturn
  /\ UNCHANGED <<shouldResolveStreams, audioStreamActive, audioChannels,
                 audioBuffer, pullBuffer, readPos, writePos,
                 fillVars, renderVars, schedVars, envVars, histVars>>
  /\ UNCHANGED multiVars

ResolveReset_KeepRead ==
  /\ rpc = "reset"
  /\ writePos' = 0
  /\ rpc' = "activate"
  /\ srcBase' = srcNext
  /\ w' = 0 /\ r' = 0 /\ popLog' = <<>> /\ mixed' = FALSE
  /\ UNCHANGED <<shouldResolveStreams, audioStreamActive, audioInlet, liveInlets,
                 audioSampleRate, audioChannels, audioBuffer, pullBuffer, readPos,
                 info, rateRejected, laterValid, fillVars, renderVars, schedVars, session,
                 srcNext, lossKind, lossAt, outCtx>>
  /\ UNCHANGED multiVars

ResolveReset_ReadOnly ==
  /\ rpc = "reset"
  /\ readPos' = 0
  /\ rpc' = "activate"
  /\ srcBase' = srcNext
  /\ w' = 0 /\ r' = 0 /\ popLog' = <<>> /\ mixed' = FALSE
  /\ UNCHANGED <<shouldResolveStreams, audioStreamActive, audioInlet, liveInlets,
                 audioSampleRate, audioChannels, audioBuffer, pullBuffer, writePos,
                 info, rateRejected, laterValid, fillVars, renderVars, schedVars, session,
                 srcNext, lossKind, lossAt, outCtx>>
  /\ UNCHANGED multiVars

\* readPos = 0; writePos = 0
ResolveReset ==
  /\ rpc = "reset"
  /\ readPos' = 0
  /\ writePos' = 0
  /\ rpc' = "activate"
  /\ srcBase' = srcNext
  /\ w' = 0 /\ r' = 0 /\ popLog' = <<>> /\ mixed' = FALSE
  /\ UNCHANGED <<shouldResolveStreams, audioStreamActive, audioInlet, liveInlets,
                 audioSampleRate, audioChannels, audioBuffer, pullBuffer,
                 info, rateRejected, laterValid, fillVars, renderVars, schedVars, session,
                 srcNext, lossKind, lossAt, outCtx>>
  /\ UNCHANGED multiVars

\* audioStreamActive = true; break
ResolveActivate ==
  /\ rpc = "activate"
  /\ audioStreamActive' = TRUE
  /\ session' = session + 1
  /\ lossKind' = "none" /\ lossAt' = NoLoss
  /\ outCtx' = NoOutCtx
  /\ ResolveReturn
  /\ UNCHANGED <<shouldResolveStreams, audioInlet, liveInlets, audioSampleRate,
                 audioChannels, audioBuffer, pullBuffer, readPos, writePos,
                 fillVars, renderVars, schedVars, srcNext, srcBase,
                 w, r, popLog, mixed>>
  /\ UNCHANGED multiVars

(* --------------------------- render callback -------------------------- *)
\* the scheduling part of one render block.  The block counters count and
\* fillCounter are not kept: their periods (audioSampleRate / audioFrames / 2
\* blocks and 8 blocks) are long against the runs explored here, so whether
\* this block is one where count % period = 0 (tickResolve) or
\* ++fillCounter % 8 = 0 (tickFill) is drawn; the runs of the fixed periods
\* are among the runs drawn.
RenderBlock(tickResolve, tickFill) ==
  /\ n = AudioFrames
  /\ resolvePending' = (resolvePending \/ (tickResolve /\ shouldResolveStreams))
  /\ fillPending' = (fillPending \/ (audioStreamActive /\ tickFill))
  /\ n' = 0
  /\ UNCHANGED <<progVars, fillVars, resolveVars, audioOut, envVars, histVars>>
  /\ UNCHANGED multiVars

RenderBegin == \E tickResolve, tickFill \in BOOLEAN : RenderBlock(tickResolve, tickFill)

RenderFrame_NoAvailCheck ==
  /\ n < AudioFrames
  /\ outCtx' = [fresh |-> TRUE, active |-> audioStreamActive, empty |-> (w = r)]
  /\ IF audioStreamActive
     THEN LET bufferIndex == RenderBufferIndex
              nch == Min(audioChannels, AudioOutChannels)
          IN /\ audioOut' = [c \in 1..nch |-> audioBuffer[bufferIndex + c - 1]]
             /\ readPos' = BitAnd(readPos + 1, bufferMask)
             /\ r' = r + 1
             /\ popLog' = Append(popLog, audioOut')
     ELSE /\ audioOut' = Silence
          /\ UNCHANGED <<readPos, r, popLog>>
  /\ n' = n + 1
  /\ UNCHANGED <<shouldResolveStreams, audioStreamActive, audioInlet, liveInlets,
                 audioSampleRate, audioChannels, audioBuffer, pullBuffer, writePos,
                 fillVars, resolveVars, schedVars, envVars,
                 w, mixed, lossKind, lossAt>>
  /\ UNCHANGED multiVars

RenderFrame_IgnoreActive ==
  /\ n < AudioFrames
  /\ outCtx' = [fresh |-> TRUE, active |-> audioStreamActive, empty |-> (w = r)]
  /\ IF available(readPos, writePos) > 0 /\ ValidChannels(audioChannels)
     THEN LET bufferIndex == RenderBufferIndex
              nch == Min(audioChannels, AudioOutChannels)
          IN /\ audioOut' = [c \in 1..nch |-> audioBuffer[bufferIndex + c - 1]]
             /\ readPos' = BitAnd(readPos + 1, bufferMask)
             /\ r' = r + 1
             /\ popLog' = Append(popLog, audioOut')
     ELSE /\ audioOut' = Silence
          /\ UNCHANGED <<readPos, r, popLog>>
  /\ n' = n + 1
  /\ UNCHANGED <<shouldResolveStreams, audioStreamActive, audioInlet, liveInlets,
                 audioSampleRate, audioChannels, audioBuffer, pullBuffer, writePos,
                 fillVars, resolveVars, schedVars, envVars,
                 w, mixed, lossKind, lossAt>>
  /\ UNCHANGED multiVars

\* one sample frame of the output loop
RenderFrame ==
  /\ n < AudioFrames
  /\ outCtx' = [fresh |-> TRUE, active |-> audioStreamActive, empty |-> (w = r)]
  /\ IF audioStreamActive /\ samplesAvailable > 0
     THEN LET bufferIndex == RenderBufferIndex
              nch == Min(audioChannels, AudioOutChannels)
          IN /\ audioOut' = [c \in 1..nch |-> audioBuffer[bufferIndex + c - 1]]
             /\ readPos' = BitAnd(readPos + 1, bufferMask)
             /\ r' = r + 1
             /\ popLog' = Append(popLog, audioOut')
     ELSE /\ audioOut' = Silence
          /\ UNCHANGED <<readPos, r, popLog>>
  /\ n' = n + 1
  /\ UNCHANGED <<shouldResolveStreams, audioStreamActive, audioInlet, liveInlets,
                 audioSampleRate, audioChannels, audioBuffer, pullBuffer, writePos,
                 fillVars, resolveVars, schedVars, envVars,
                 w, mixed, lossKind, lossAt>>
  /\ UNCHANGED multiVars

(* ---------------------------- specification --------------------------- *)
Next ==
  \/ FillEnter
  \/ FillPull
  \/ FillCopy
  \/ FillAdvance
  \/ FillPullLost
  \/ FillPullError
  \/ ResolveStart
  \/ ResolveCreate
  \/ ResolveReset
  \/ ResolveActivate
  \/ RenderBegin
  \/ RenderFrame

Spec == Init /\ [][Next]_vars

(* ------------------ specification with fair scheduling ---------------- *)
\* a candidate a pass can build a session on
Connectable(i) ==
  /\ i.name = AUDIO_STREAM_NAME
  /\ RateCompatible(i.srate, belaSampleRate)
  /\ ValidChannels(i.channels)
  /\ i.openOk

\* the outcomes of a pass while a connectable source stays advertised: every
\* result list holds one, next to whatever else is advertised
StaysAdvertised ==
  { PassOutcome(s) : s \in { t \in CandidateLists :
                               \E i \in 1..Len(t) : Connectable(t[i]) } }

LiveResolveStart == ResolveStartFrom(StaysAdvertised)

\* the pull fails, at most MaxSessions - 1 times in a run
LiveLoss == session < MaxSessions /\ (FillPullLost \/ FillPullError)

LiveNext ==
  \/ FillEnter
  \/ FillPull
  \/ FillCopy
  \/ FillAdvance
  \/ LiveLoss
  \/ LiveResolveStart
  \/ ResolveCreate
  \/ ResolveReset
  \/ ResolveActivate
  \/ RenderBegin
  \/ RenderFrame

\* the audio thread keeps calling render, the block counters keep reaching
\* their periods, and a scheduled auxiliary task runs to its end
Fairness ==
  /\ WF_vars(RenderFrame)
  /\ SF_vars(RenderBlock(TRUE, TRUE))
  /\ WF_vars(LiveResolveStart)
  /\ WF_vars(ResolveCreate)
  /\ WF_vars(ResolveReset)
  /\ WF_vars(ResolveActivate)
  /\ WF_vars(FillEnter)
  /\ WF_vars(FillPull)
  /\ WF_vars(FillCopy)
  /\ WF_vars(FillAdvance)

LiveSpec == Init /\ [][LiveNext]_vars /\ Fairness

(* ------------- the multi-inlet variant (src/src/render.cpp) ----------- *)
(* Granularity: resolveStreams runs its entry (with the clearing of the   *)
(* lists), the creation of one inlet and its end as separate steps;       *)
(* pullSamples runs its entry, the pull of one inlet and the erasing of   *)
(* the closed inlets as separate steps; render is one step.  The samples  *)
(* pull_sample stores in streamData are not kept, only the vectors' sizes. *)

\* the streams a resolver result can hold; the last one fails to open
Streams ==
  { Info(AUDIO_STREAM_NAME, belaSampleRate, 2, TRUE),
    Info("other", belaSampleRate, 1, TRUE),
    Info("late", belaSampleRate, 1, FALSE) }

\* resolver->results(): every advertised stream is listed once
StreamLists ==
  { s \in UNION { [1..k -> Streams] : k \in 0..MaxCandidates } :
      \A a, b \in 1..Len(s) : s[a] = s[b] => a = b }

\* the erase loop of pullSamples on one of the three parallel lists: the
\* entries at the positions of the closed (null) inlets are dropped
RECURSIVE EraseClosed(_, _)
EraseClosed(seq, inlets) ==
  IF seq = <<>> THEN <<>>
  ELSE IF Head(inlets) = NoInlet
  THEN EraseClosed(Tail(seq), Tail(inlets))
  ELSE <<Head(seq)>> \o EraseClosed(Tail(seq), Tail(inlets))

EmptyAtEntry_Always == TRUE

\* bool needToReopen = streamInlets.empty()
EmptyAtEntry == streamInlets = <<>>

\* render: schedule the discovery pass on the blocks where the counter
\* reaches its period (drawn), and the pull task whenever an inlet exists
MultiRender(tick) ==
  /\ resolvePending' = (resolvePending \/ (tick /\ shouldResolveStreams))
  /\ pullPending' = (pullPending \/ streamInlets # <<>>)
  /\ UNCHANGED <<shouldResolveStreams, fillPending, streamInlets, streamData,
                 streamNames, streamsResolved, availableStreams, needToReopen,
                 resolveI, mrpc, pullI, ppc, lostStreams, ignored, audioVars>>

MultiRenderStep == \E tick \in BOOLEAN : MultiRender(tick)

\* entry of resolveStreams up to the loop over the streams
MultiResolveStart ==
  /\ resolvePending /\ mrpc = "idle"
  /\ resolvePending' = FALSE
  /\ \E s \in StreamLists :
       /\ availableStreams' = s
       /\ IF s # <<>> /\ EmptyAtEntry
          THEN /\ needToReopen' = TRUE
               /\ streamInlets' = <<>> /\ streamData' = <<>> /\ streamNames' = <<>>
               /\ mrpc' = "open" /\ resolveI' = 1
               /\ UNCHANGED ignored
          ELSE /\ ignored' = ignored \cup
                     { x \in lostStreams : \E a \in 1..Len(s) : s[a] = x }
               /\ UNCHANGED <<needToReopen, streamInlets, streamData, streamNames,
                              mrpc, resolveI>>
  /\ UNCHANGED <<shouldResolveStreams, fillPending, streamsResolved, pullI, ppc,
                 pullPending, lostStreams, audioVars>>

\* one iteration of the loop: the inlet is created and listed with its data
\* vector and name, then opened; if the creation throws nothing is listed,
\* if the open throws the listed inlet stays, not open
MultiResolveOpen ==
  /\ mrpc = "open" /\ resolveI <= Len(availableStreams)
  /\ LET stream == availableStreams[resolveI]
     IN \E created \in BOOLEAN :
          IF created
          THEN /\ streamInlets' =
                    Append(streamInlets, [of |-> stream, open |-> stream.openOk])
               /\ streamData' = Append(streamData, stream.channels)
               /\ streamNames' = Append(streamNames, stream.name)
          ELSE UNCHANGED <<streamInlets, streamData, streamNames>>
  /\ resolveI' = resolveI + 1
  /\ UNCHANGED <<shouldResolveStreams, schedVars, streamsResolved,
                 availableStreams, needToReopen, mrpc, pullI, ppc, pullPending,
                 lostStreams, ignored, audioVars>>

\* streamsResolved = true
MultiResolveEnd ==
  /\ mrpc = "open" /\ resolveI > Len(availableStreams)
  /\ streamsResolved' = TRUE
  /\ mrpc' = "idle" /\ needToReopen' = FALSE /\ resolveI' = 0
  /\ UNCHANGED <<shouldResolveStreams, schedVars, streamInlets, streamData,
                 streamNames, availableStreams, pullI, ppc, pullPending,
                 lostStreams, ignored, audioVars>>

\* entry check of pullSamples
PullStart ==
  /\ pullPending /\ ppc = "idle"
  /\ pullPending' = FALSE
  /\ IF ~streamsResolved \/ streamInlets = <<>>
     THEN UNCHANGED <<ppc, pullI>>
     ELSE ppc' = "pull" /\ pullI' = 1
  /\ UNCHANGED <<shouldResolveStreams, schedVars, streamInlets, streamData,
                 streamNames, streamsResolved, availableStreams, needToReopen,
                 resolveI, mrpc, lostStreams, ignored, audioVars>>

\* pull_sample of one inlet: it returns (with or without a sample) or throws
\* another exception, which only logs, or it throws lost_error: the inlet is
\* closed, deleted and nulled and the rediscovery flag is set
PullOne ==
  /\ ppc = "pull" /\ pullI <= Len(streamInlets)
  /\ \E lost \in BOOLEAN :
       IF lost
       THEN /\ streamInlets' = [streamInlets EXCEPT ![pullI] = NoInlet]
            /\ shouldResolveStreams' = TRUE
            /\ lostStreams' = lostStreams \cup {streamInlets[pullI].of}
       ELSE UNCHANGED <<streamInlets, shouldResolveStreams, lostStreams>>
  /\ pullI' = pullI + 1
  /\ UNCHANGED <<schedVars, streamData, streamNames, streamsResolved,
                 availableStreams, needToReopen, resolveI, mrpc, ppc,
                 pullPending, ignored, audioVars>>

\* the erase loop and the all-lost check
PullCleanup ==
  /\ ppc = "pull" /\ pullI > Len(streamInlets)
  /\ streamInlets' = EraseClosed(streamInlets, streamInlets)
  /\ streamNames' = EraseClosed(streamNames, streamInlets)
  /\ streamData' = EraseClosed(streamData, streamInlets)
  /\ IF streamInlets' = <<>>
     THEN streamsResolved' = FALSE /\ lostStreams' = {} /\ ignored' = {}
     ELSE UNCHANGED <<streamsResolved, lostStreams, ignored>>
  /\ ppc' = "idle" /\ pullI' = 0
  /\ UNCHANGED <<shouldResolveStreams, schedVars, availableStreams,
                 needToReopen, resolveI, mrpc, pullPending, audioVars>>

MultiNext ==
  \/ MultiRenderStep
  \/ MultiResolveStart
  \/ MultiResolveOpen
  \/ MultiResolveEnd
  \/ PullStart
  \/ PullOne
  \/ PullCleanup

MultiSpec == Init /\ [][MultiNext]_vars

(* ------------------------------- claims ------------------------------- *)
\* frame the i-th pop of the current session must output: the i-th frame
\* pulled in the session, on the channels the render loop writes
ExpectedOut(i) ==
  [c \in 1..Min(audioChannels, AudioOutChannels) |-> SampleOf(srcBase + i, c - 1)]

\* a render sample frame has run since the session was deactivated
RenderedWhileInactive == outCtx.fresh /\ ~outCtx.active

RateWithinTolerance(srate) == Abs(srate - belaSampleRate) * 1000 < belaSampleRate

\* C1: within an active session the frames pushed and not yet popped never
\* exceed AUDIO_BUFFER_FRAMES - 1, so the fill task never stores into a slot
\* whose frame was not popped.
C1_NoOverwrite ==
  audioStreamActive => w - r <= AUDIO_BUFFER_FRAMES - 1

\* C2: slack invariant: in an active session the free space the fill task
\* computes plus samplesAvailable() is AUDIO_BUFFER_FRAMES - 1.
C2_SlackInvariant ==
  audioStreamActive =>
    WriteSpace(readPos, writePos) + samplesAvailable = AUDIO_BUFFER_FRAMES - 1

\* C3: round trip: as long as no more than capacity - 1 frames are pushed
\* and not popped, the frames the render loop pops are the frames pushed, in
\* push order, every channel's sample unchanged, and a pop from the drained
\* ring is silence; m <= capacity - 1 frames pushed into the empty ring and
\* then popped is the case ~mixed of the witness.
C3_RoundTrip ==
  (audioStreamActive /\ w - r <= AUDIO_BUFFER_FRAMES - 1) =>
    /\ Len(popLog) = r
    /\ \A i \in 1..r : popLog[i] = ExpectedOut(i)
    /\ (outCtx.fresh /\ outCtx.active /\ outCtx.empty) => audioOut = Silence

C3_Witness ==
  /\ audioStreamActive /\ ~mixed /\ audioChannels = 2
  /\ w = AUDIO_BUFFER_FRAMES - 1 /\ r = w
  /\ outCtx.fresh /\ outCtx.active /\ outCtx.empty /\ audioOut = Silence

\* C4: in an active session, after w pushes and r pops with r <= w and
\* w - r < capacity, samplesAvailable() is w - r, whatever the interleaving
\* and across index wrap-around.
C4_AvailableCount ==
  (audioStreamActive /\ r <= w /\ w - r < AUDIO_BUFFER_FRAMES) =>
    samplesAvailable = w - r

C4_Witness ==
  /\ audioStreamActive /\ mixed
  /\ w > AUDIO_BUFFER_FRAMES /\ w - r < AUDIO_BUFFER_FRAMES /\ w - r > 0
  /\ writePos < readPos

\* C5: right after a session is activated (and until the first push)
\* samplesAvailable() is 0 and the fill task's free space is
\* AUDIO_BUFFER_FRAMES - 1, whatever readPos and writePos were before.
C5_ActivationResets ==
  (audioStreamActive /\ w = 0 /\ r = 0) =>
    (samplesAvailable = 0 /\
     WriteSpace(readPos, writePos) = AUDIO_BUFFER_FRAMES - 1)

\* an active session on top of the previous session's leftovers: lossAt is
\* cleared by the activation, so the stale frame in slot 0 is what shows it
C5_Witness ==
  /\ audioStreamActive /\ session = 2 /\ w = 0 /\ r = 0
  /\ fpc = "idle" /\ outCtx = NoOutCtx /\ audioBuffer[0] # 0

\* C6: once a pull has signalled loss the session is not active, and every
\* sample frame rendered from then on is silence on every output channel,
\* until a discovery pass activates a session again.
C6_LossSilence ==
  lossKind = "lost" =>
    /\ ~audioStreamActive /\ fpc = "idle"
    /\ RenderedWhileInactive => audioOut = Silence

C6_Witness ==
  /\ lossKind = "lost" /\ ~audioStreamActive
  /\ RenderedWhileInactive /\ audioOut = Silence /\ n = AudioFrames

\* C7 as stated: after a loss the render step goes on popping the buffered
\* frames, so a silent sample frame after the loss means the ring is drained.
C7_DrainBeforeSilence ==
  (lossKind = "lost" /\ RenderedWhileInactive /\ audioOut = Silence) =>
    available(readPos, writePos) = 0

\* C7 amended: after a loss the buffered frames are not output: the sample
\* frames rendered are silence, and readPos and writePos keep the values they
\* had at the loss until the reset of the next activation zeroes them.
C7_LossKeepsFrames ==
  lossKind = "lost" =>
    /\ RenderedWhileInactive => audioOut = Silence
    /\ \/ (readPos = lossAt.rp /\ writePos = lossAt.wp)
       \/ (rpc = "activate" /\ readPos = 0 /\ writePos = 0)

C7_Witness ==
  /\ lossKind = "lost" /\ RenderedWhileInactive /\ audioOut = Silence
  /\ r > 0 /\ w - r > 0 /\ available(readPos, writePos) = w - r
  /\ readPos = lossAt.rp /\ writePos = lossAt.wp

\* C8 as stated: a pull exception that is not a loss leaves the session
\* active.
C8_TransientKeepsActive ==
  lossKind = "error" => audioStreamActive

\* C8 amended: any exception of the pull ends the invocation with the active
\* flag cleared; the inlet and both indices stay as they were until a
\* discovery pass creates another inlet and resets them, and no fill
\* invocation gets past its entry check until a session is activated again.
C8_ErrorEndsSession ==
  lossKind = "error" =>
    /\ ~audioStreamActive /\ fpc = "idle"
    /\ \/ audioInlet = lossAt.inlet
       \/ ~audioInlet.open
       \/ rpc \in {"reset", "activate"}
    /\ \/ (readPos = lossAt.rp /\ writePos = lossAt.wp)
       \/ (rpc = "activate" /\ readPos = 0 /\ writePos = 0)

C8_Witness ==
  /\ lossKind = "error" /\ ~audioStreamActive
  /\ audioInlet = lossAt.inlet /\ audioInlet.open
  /\ fillPending /\ fpc = "idle" /\ w > 0

\* C9: a session that was lost keeps no inlet: the handler has closed and
\* discarded it and the rediscovery flag is set.
C9_LostInletClosed ==
  lossKind = "lost" => (audioInlet = NoInlet /\ shouldResolveStreams)

\* C10: no candidate whose rate differs from the local rate by the tolerance
\* or more is picked by a pass, given to an inlet, or behind an active session.
C10_RateMismatchNeverOpened ==
  /\ rpc # "idle" => RateWithinTolerance(info.srate)
  /\ audioInlet # NoInlet => RateWithinTolerance(audioInlet.of.srate)
  /\ audioStreamActive => RateWithinTolerance(audioSampleRate)

\* a pass that met a name-matching candidate at the tolerance and opened
\* another one
C10_Witness ==
  /\ rateRejected /\ rpc = "activate"
  /\ audioInlet.open /\ audioInlet.of = info /\ info.srate # belaSampleRate

\* a channel count the ring can hold
ChannelsInRange(k) == k \in 1..MAX_CHANNELS

\* the step that starts a discovery pass (the only one that takes the
\* pending discovery task)
PassStarts == rpc = "idle" /\ resolvePending /\ ~resolvePending'

\* frame and channel (0-based) a sample value came from; frame -1 for a
\* slot no frame was stored in
FrameOf(x) == (x - 1) \div MAX_CHANNELS
ChannelOf(x) == (x - 1) % MAX_CHANNELS

\* the samples of frame k on the channels the render loop writes
WholeFrame(k) ==
  [c \in 1..Min(audioChannels, AudioOutChannels) |-> SampleOf(k, c - 1)]

\* slot j of the ring holds the audioChannels samples of one frame
SlotWhole(j) ==
  \E k \in 1..MaxFrames :
    \A c \in 0..(audioChannels - 1) :
      audioBuffer[j * audioChannels + c] = SampleOf(k, c)

\* C11: a candidate whose channel count is outside 1..MAX_CHANNELS is never
\* picked or given to an inlet, no session and no fill invocation runs with
\* such a count, and a pass that ends with such a count stored ends at once,
\* with the active flag false and the inlet and both indices as they were.
C11_StateOk ==
  /\ audioInlet # NoInlet => ChannelsInRange(audioInlet.of.channels)
  /\ rpc # "idle" => ChannelsInRange(info.channels)
  /\ (audioStreamActive \/ fpc # "idle") => ChannelsInRange(audioChannels)

C11_PassStep ==
  (PassStarts /\ ~ChannelsInRange(audioChannels')) =>
    /\ rpc' = "idle" /\ ~audioStreamActive'
    /\ UNCHANGED <<audioStreamActive, audioInlet, liveInlets, readPos, writePos>>

C11_InvalidChannelsNeverOpened == []C11_StateOk /\ [][C11_PassStep]_vars

\* a pass over a too-wide candidate, after a lost session whose inlet and
\* indices are still there
C11_Witness ==
  /\ audioChannels = MAX_CHANNELS + 1 /\ ~audioStreamActive /\ rpc = "idle"
  /\ lossKind = "lost" /\ audioInlet = lossAt.inlet /\ audioInlet.open
  /\ writePos = lossAt.wp /\ writePos # 0

\* C12: a pass that picked a candidate while a further candidate passing the
\* name, rate and channel checks was in the list does not end without a
\* session: if the picked one fails the pass goes on to the further one.
C12_PassContinues ==
  [][(rpc # "idle" /\ rpc' = "idle" /\ laterValid) => audioStreamActive']_vars

\* C13: while a connectable source stays advertised, every state without an
\* active session is followed by one with an active session.
C13_Reconnects == (~audioStreamActive) ~> audioStreamActive

\* C14: a discovery pass in an active session ends at once and leaves the
\* inlet, channel count, recorded rate, both indices and the active flag
\* unchanged; no pass is past its entry while a session is active, and at
\* most one inlet exists, the open one of the active session.
C14_StateOk ==
  /\ liveInlets <= 1
  /\ audioStreamActive =>
       (rpc = "idle" /\ liveInlets = 1 /\ audioInlet # NoInlet /\ audioInlet.open)

C14_PassStep ==
  (PassStarts /\ audioStreamActive) =>
    /\ rpc' = "idle"
    /\ UNCHANGED <<audioInlet, liveInlets, audioChannels, audioSampleRate,
                   readPos, writePos, audioStreamActive>>

C14_ActivePassNoOp == []C14_StateOk /\ [][C14_PassStep]_vars

\* a discovery pass is due in an active session with frames buffered while a
\* fill invocation is storing a frame
C14_Witness ==
  /\ audioStreamActive /\ resolvePending /\ rpc = "idle"
  /\ w - r > 0 /\ fpc = "copy" /\ ch > 0

\* C15: every sample-frame iteration either pops (session active and
\* samplesAvailable() > 0: the frame at readPos is output and readPos advances
\* by one modulo the capacity) or writes silence on every output channel and
\* leaves readPos alone; pops never outnumber pushes.
C15_FrameStep ==
  (n' = n + 1) =>
    IF audioStreamActive /\ samplesAvailable > 0
    THEN /\ readPos # writePos
         /\ readPos' = (readPos + 1) % AUDIO_BUFFER_FRAMES
         /\ r' = r + 1
         /\ audioOut' = [c \in 1..Min(audioChannels, AudioOutChannels) |->
                           audioBuffer[readPos * audioChannels + c - 1]]
    ELSE /\ audioOut' = Silence
         /\ readPos' = readPos /\ r' = r

C15_PopOrSilence == [](r <= w) /\ [][C15_FrameStep]_vars

\* the ring was drained by pops and the next iteration wrote silence
C15_Witness ==
  /\ audioStreamActive /\ Len(popLog) = 2 /\ r = 2 /\ w = 2
  /\ readPos = 2 /\ writePos = 2
  /\ outCtx.fresh /\ outCtx.active /\ outCtx.empty /\ audioOut = Silence

\* C16: a pass past its entry runs with the active flag false and no fill
\* invocation in flight; when only the activation is left the channel count
\* of the picked candidate is stored, its inlet is open and both indices are
\* zero; in an active session the channel count is the inlet's and the
\* indices are the session's own push and pop counts modulo the capacity.
C16_ActivationOrdering ==
  /\ rpc # "idle" => (~audioStreamActive /\ fpc = "idle")
  /\ rpc = "activate" =>
       /\ readPos = 0 /\ writePos = 0
       /\ audioChannels = info.channels
       /\ audioInlet = [of |-> info, open |-> TRUE]
  /\ audioStreamActive =>
       /\ audioChannels = audioInlet.of.channels
       /\ readPos = r % AUDIO_BUFFER_FRAMES
       /\ writePos = w % AUDIO_BUFFER_FRAMES

\* the first fill invocation of a second, one-channel session, over samples
\* an earlier session left in the storage
C16_Witness ==
  /\ audioStreamActive /\ session = 2 /\ audioChannels = 1
  /\ fpc = "pull" /\ w = 0 /\ r = 0 /\ readPos = 0 /\ writePos = 0
  /\ audioBuffer[1] # 0

\* C17: every sample of every frame popped in the active session comes from a
\* frame pulled in that session, never from one pulled before its reset.
C17_NoStaleFrames ==
  audioStreamActive =>
    \A i \in 1..Len(popLog) :
      \A c \in 1..Len(popLog[i]) :
        FrameOf(popLog[i][c]) \in (srcBase + 1)..srcNext

\* a one-channel session that popped its first frame while the slot next to
\* it still holds a sample of an earlier session
C17_Witness ==
  /\ audioStreamActive /\ session = 2 /\ srcBase > 0 /\ audioChannels = 1
  /\ w = 1 /\ r = 1 /\ Len(popLog) = 1
  /\ audioBuffer[1] # 0 /\ FrameOf(audioBuffer[1]) <= srcBase

\* C18: every frame the render step popped is one whole frame, each channel
\* holding that frame's sample of that channel, and every slot
\* samplesAvailable() counts as readable holds a whole frame, also while the
\* fill task is part-way through storing the next one.
C18_NoTornFrame ==
  audioStreamActive =>
    /\ \A i \in 1..Len(popLog) : \E k \in 1..MaxFrames : popLog[i] = WholeFrame(k)
    /\ \A j \in 0..(samplesAvailable - 1) :
         SlotWhole((readPos + j) % AUDIO_BUFFER_FRAMES)

\* a two-channel frame was popped while the fill task has stored one of the
\* two samples of the following frame
C18_Witness ==
  /\ audioStreamActive /\ audioChannels = 2
  /\ fpc = "copy" /\ f = 1 /\ ch = 1
  /\ w = 1 /\ r = 1 /\ popLog = <<WholeFrame(srcBase + 1)>>

\* C19: both indices stay inside 0..AUDIO_BUFFER_FRAMES - 1, every ring
\* access of the fill task and of the render step stays inside the
\* AUDIO_BUFFER_FRAMES * MAX_CHANNELS storage, and every batch and every
\* scratch access stays inside the PULL_BUFFER_FRAMES scratch buffers.
C19_IndexBounds ==
  /\ readPos \in 0..(AUDIO_BUFFER_FRAMES - 1)
  /\ writePos \in 0..(AUDIO_BUFFER_FRAMES - 1)
  /\ fpc = "pull" =>
       /\ maxFramesToPull \in 1..PULL_BUFFER_FRAMES
       /\ maxFramesToPull * audioChannels <= PULL_BUFFER_FRAMES * MAX_CHANNELS
  /\ fpc = "copy" =>
       /\ framesPulled \in 1..PULL_BUFFER_FRAMES
       /\ DOMAIN pullBuffer \subseteq 0..(PULL_BUFFER_FRAMES * MAX_CHANNELS - 1)
       /\ \A c \in 0..(audioChannels - 1) :
            /\ FillBufferIndex + c \in 0..(AUDIO_BUFFER_FRAMES * MAX_CHANNELS - 1)
            /\ f * audioChannels + c \in 0..(PULL_BUFFER_FRAMES * MAX_CHANNELS - 1)
  /\ (audioStreamActive /\ samplesAvailable > 0) =>
       \A c \in 0..(Min(audioChannels, AudioOutChannels) - 1) :
         RenderBufferIndex + c \in 0..(AUDIO_BUFFER_FRAMES * MAX_CHANNELS - 1)

\* the fill task stores into the last slot of the ring while the render
\* step is about to read the slot before it
C19_Witness ==
  /\ audioStreamActive /\ audioChannels = 2 /\ fpc = "copy" /\ ch = 1
  /\ writePos = AUDIO_BUFFER_FRAMES - 1 /\ readPos = AUDIO_BUFFER_FRAMES - 2

\* the step that starts a discovery pass of the multi-inlet variant
MultiPassStarts == mrpc = "idle" /\ resolvePending /\ ~resolvePending'

\* C20: in the multi-inlet variant a pass that finds the inlet list not empty
\* ends at once and leaves streamInlets, streamData and streamNames as they
\* were, inlets are added only by a pass that found the list empty, and no
\* stream lost since the list was last empty has an inlet.
C20_StateOk ==
  \A k \in 1..Len(streamInlets) :
    streamInlets[k] # NoInlet => streamInlets[k].of \notin lostStreams

C20_PassStep ==
  /\ (MultiPassStarts /\ streamInlets # <<>>) =>
       (mrpc' = "idle" /\ UNCHANGED <<streamInlets, streamData, streamNames>>)
  /\ Len(streamInlets') > Len(streamInlets) => needToReopen

====
